---------------------------- MODULE Spec2Model ----------------------------
(***************************************************************************)
(* A model of packages/rest/src/Requester.ts: the request executor         *)
(* (defaultRequestHandler with its retry loop, parseResponse, processBody, *)
(* throwFailedRequestError) over the platform's fetch, Response, URL and   *)
(* JSON.  JavaScript strings are TLA+ strings; JavaScript values are       *)
(* tagged records.                                                         *)
(***************************************************************************)
EXTENDS Integers, Sequences

(***************************************************************************)
(* JavaScript strings.                                                     *)
(***************************************************************************)

\* s.substring(from - 1), 1-based: the text of s from position from on.
From(s, from) == SubSeq(s, from, Len(s))

\* s.startsWith(p)
StartsWith(s, p) == Len(p) <= Len(s) /\ SubSeq(s, 1, Len(p)) = p

\* s.endsWith(p)
EndsWith(s, p) == Len(p) <= Len(s) /\ SubSeq(s, Len(s) - Len(p) + 1, Len(s)) = p

\* s.indexOf(p) + 1: the first position of p in s, 0 when p does not occur.
IndexOf(s, p) ==
  LET hits == {k \in 1..(Len(s) - Len(p) + 1) : SubSeq(s, k, k + Len(p) - 1) = p}
  IN IF hits = {} THEN 0 ELSE CHOOSE k \in hits : \A j \in hits : k <= j

\* s.includes(p)
Includes(s, p) == IndexOf(s, p) # 0

\* s.split(sep)[0]: the text before the first sep, all of s when there is none.
SplitFirst(s, sep) ==
  IF IndexOf(s, sep) = 0 THEN s ELSE SubSeq(s, 1, IndexOf(s, sep) - 1)

WhiteSpace == {" ", "\t", "\n", "\r"}

\* s.trim()
Trim(s) ==
  LET keep == {k \in 1..Len(s) : SubSeq(s, k, k) \notin WhiteSpace}
  IN IF keep = {} THEN ""
     ELSE SubSeq(s, CHOOSE k \in keep : \A j \in keep : k <= j,
                    CHOOSE k \in keep : \A j \in keep : k >= j)

\* s.split(sep) for a one-character sep: the pieces between the separators.
RECURSIVE Split(_, _)
Split(s, sep) ==
  IF IndexOf(s, sep) = 0 THEN <<s>>
  ELSE <<SubSeq(s, 1, IndexOf(s, sep) - 1)>> \o Split(From(s, IndexOf(s, sep) + 1), sep)

\* parts.join(sep)
RECURSIVE Join(_, _)
Join(parts, sep) ==
  IF parts = <<>> THEN ""
  ELSE IF Len(parts) = 1 THEN parts[1]
  ELSE parts[1] \o sep \o Join(Tail(parts), sep)

(***************************************************************************)
(* JavaScript values: null, undefined, numbers, booleans, strings, plain   *)
(* objects (a function from property names to values), and the two         *)
(* platform objects a response body can be read as.                        *)
(***************************************************************************)
Null == [t |-> "null"]
Undefined == [t |-> "undefined"]
Num(n) == [t |-> "num", v |-> n]
Bool(b) == [t |-> "bool", v |-> b]
Str(s) == [t |-> "str", v |-> s]
\* A plain object: its properties in insertion order, <<name, value>> each.
Obj(props) == [t |-> "obj", props |-> props]
EmptyObj == Obj(<<>>)
Blob(size) == [t |-> "blob", size |-> size]
Stream(bytes) == [t |-> "stream", bytes |-> bytes]

\* !v
Falsy(v) ==
  \/ v.t \in {"null", "undefined"}
  \/ v.t = "num" /\ v.v = 0
  \/ v.t = "bool" /\ v.v = FALSE
  \/ v.t = "str" /\ v.v = ""

\* a || b
OrElse(a, b) == IF Falsy(a) THEN b ELSE a

\* v.name of a value that is not null or undefined
Prop(v, name) ==
  IF v.t = "obj" /\ \E k \in 1..Len(v.props) : v.props[k][1] = name
  THEN v.props[CHOOSE k \in 1..Len(v.props) : v.props[k][1] = name][2]
  ELSE Undefined

\* obj[name] = value, as JSON.parse defines a member: a repeated name keeps
\* its place and takes the later value.
SetProp(props, name, value) ==
  IF \E k \in 1..Len(props) : props[k][1] = name
  THEN [k \in 1..Len(props) |->
          IF props[k][1] = name THEN <<name, value>> ELSE props[k]]
  ELSE Append(props, <<name, value>>)

(***************************************************************************)
(* JSON.parse and JSON.stringify, for the JSON texts made of null, true,   *)
(* false, integers, strings without escapes, and objects of these.         *)
(***************************************************************************)
Digits == <<"0", "1", "2", "3", "4", "5", "6", "7", "8", "9">>
IsDigit(c) == \E d \in 1..10 : Digits[d] = c
DigitValue(c) == (CHOOSE d \in 1..10 : Digits[d] = c) - 1

CharAt(s, pos) == IF pos >= 1 /\ pos <= Len(s) THEN SubSeq(s, pos, pos) ELSE ""

\* The first position at or after pos that holds no white space.
RECURSIVE SkipWs(_, _)
SkipWs(s, pos) == IF CharAt(s, pos) \in WhiteSpace THEN SkipWs(s, pos + 1) ELSE pos

\* The first position at or after pos that holds no digit.
RECURSIVE SkipDigits(_, _)
SkipDigits(s, pos) == IF IsDigit(CharAt(s, pos)) THEN SkipDigits(s, pos + 1) ELSE pos

RECURSIVE DigitsValue(_)
DigitsValue(s) ==
  IF s = "" THEN 0
  ELSE 10 * DigitsValue(SubSeq(s, 1, Len(s) - 1)) + DigitValue(CharAt(s, Len(s)))

ParseFail == [ok |-> FALSE]
Parsed(value, next) == [ok |-> TRUE, value |-> value, next |-> next]

\* The JSON string whose opening quote is at pos and whose closing quote is
\* close characters after it (0: there is none).
StringClosedAt(s, pos, close) ==
  IF CharAt(s, pos) # "\"" \/ close = 0 THEN ParseFail
  ELSE Parsed(SubSeq(s, pos + 1, pos + close - 1), pos + close + 1)

\* A JSON string starting at the quote at pos.
ParseString(s, pos) == StringClosedAt(s, pos, IndexOf(From(s, pos + 1), "\""))

StringValue(str) == IF str.ok THEN Parsed(Str(str.value), str.next) ELSE ParseFail

\* The integer whose digits start at from, negative when c is the sign.
NumberAt(s, c, from) ==
  IF IsDigit(CharAt(s, from))
  THEN Parsed(Num((IF c = "-" THEN -1 ELSE 1)
                    * DigitsValue(SubSeq(s, from, SkipDigits(s, from) - 1))),
              SkipDigits(s, from))
  ELSE ParseFail

RECURSIVE ParseValue(_, _)
RECURSIVE ValueAt(_, _, _)
RECURSIVE ParseMembers(_, _, _)
RECURSIVE MemberValue(_, _, _)
RECURSIVE MemberEnd(_, _, _, _)
RECURSIVE MemberNext(_, _, _)

\* After a member: a comma and the next member, or the closing brace.
MemberNext(s, after, props) ==
  IF CharAt(s, after) = "," THEN ParseMembers(s, after + 1, props)
  ELSE IF CharAt(s, after) = "}" THEN Parsed(Obj(props), after + 1)
  ELSE ParseFail

\* The member named name with the parsed value val.
MemberEnd(s, name, val, props) ==
  IF val.ok THEN MemberNext(s, SkipWs(s, val.next), SetProp(props, name, val.value))
  ELSE ParseFail

\* The colon and the value that follow the parsed member name key.
MemberValue(s, key, props) ==
  IF key.ok /\ CharAt(s, SkipWs(s, key.next)) = ":"
  THEN MemberEnd(s, key.value, ParseValue(s, SkipWs(s, key.next) + 1), props)
  ELSE ParseFail

\* The members of an object from pos on, after props, up to the closing brace.
ParseMembers(s, pos, props) == MemberValue(s, ParseString(s, SkipWs(s, pos)), props)

\* The JSON value that starts at p with the character c.
ValueAt(s, p, c) ==
  IF StartsWith(From(s, p), "null") THEN Parsed(Null, p + 4)
  ELSE IF StartsWith(From(s, p), "true") THEN Parsed(Bool(TRUE), p + 4)
  ELSE IF StartsWith(From(s, p), "false") THEN Parsed(Bool(FALSE), p + 5)
  ELSE IF c = "\"" THEN StringValue(ParseString(s, p))
  ELSE IF c = "{" THEN
    IF CharAt(s, SkipWs(s, p + 1)) = "}"
    THEN Parsed(EmptyObj, SkipWs(s, p + 1) + 1)
    ELSE ParseMembers(s, p + 1, <<>>)
  ELSE NumberAt(s, c, IF c = "-" THEN p + 1 ELSE p)

\* The JSON value that starts at or after pos.
ParseValue(s, pos) == ValueAt(s, SkipWs(s, pos), CharAt(s, SkipWs(s, pos)))

\* The whole text was the value r.
WholeText(text, r) ==
  IF r.ok /\ SkipWs(text, r.next) = Len(text) + 1 THEN [ok |-> TRUE, value |-> r.value]
  ELSE ParseFail

\* JSON.parse(text): the value, or the SyntaxError it throws.
JsonParse(text) == WholeText(text, ParseValue(text, 1))

RECURSIVE NatToString(_)
NatToString(n) ==
  IF n < 10 THEN Digits[n + 1] ELSE NatToString(n \div 10) \o Digits[(n % 10) + 1]

IntToString(n) == IF n < 0 THEN "-" \o NatToString(0 - n) ELSE NatToString(n)

RECURSIVE Spaces(_)
Spaces(n) == IF n = 0 THEN "" ELSE " " \o Spaces(n - 1)

\* JSON.stringify(v, null, 2) of a value nested depth levels deep: a string,
\* or undefined for undefined.
RECURSIVE StringifyAt(_, _)
StringifyAt(v, depth) ==
  CASE v.t = "undefined" -> Undefined
    [] v.t = "null" -> Str("null")
    [] v.t = "bool" -> Str(IF v.v THEN "true" ELSE "false")
    [] v.t = "num" -> Str(IntToString(v.v))
    [] v.t = "str" -> Str("\"" \o v.v \o "\"")
    [] v.t = "obj" ->
         IF v.props = <<>> THEN Str("{}")
         ELSE Str("{\n"
                \o Join([k \in 1..Len(v.props) |->
                           Spaces(2 * (depth + 1)) \o "\"" \o v.props[k][1] \o "\": "
                             \o StringifyAt(v.props[k][2], depth + 1).v], ",\n")
                \o "\n" \o Spaces(2 * depth) \o "}")

Stringify(v) == StringifyAt(v, 0)


(***************************************************************************)
(* The platform's URL: new URL(input, base), url.search = ..., url.href,   *)
(* for http and https URLs without credentials, ports or escapes.          *)
(***************************************************************************)
UrlFail == [ok |-> FALSE]

\* The first position in s of one of the characters of chars, Len(s) + 1
\* when there is none.
FirstOf(s, chars) ==
  LET hits == {k \in 1..Len(s) : SubSeq(s, k, k) \in chars}
  IN IF hits = {} THEN Len(s) + 1 ELSE CHOOSE k \in hits : \A j \in hits : k <= j

\* The path segments left after the segments of more are appended to those
\* of path: a "." segment is dropped and a ".." segment removes the segment
\* before it; either, in last place, leaves an empty last segment.
RECURSIVE AppendSegments(_, _)
AppendSegments(path, more) ==
  IF more = <<>> THEN path
  ELSE LET seg == Head(more)
           last == Len(more) = 1
           popped == IF path = <<>> THEN <<>> ELSE SubSeq(path, 1, Len(path) - 1)
       IN IF seg = ".."
          THEN AppendSegments(IF last THEN Append(popped, "") ELSE popped, Tail(more))
          ELSE IF seg = "."
          THEN AppendSegments(IF last THEN Append(path, "") ELSE path, Tail(more))
          ELSE AppendSegments(Append(path, seg), Tail(more))

\* The segments of a path text: the pieces between its slashes, a leading
\* slash apart.
SegmentsOf(pathText) ==
  IF pathText = "" THEN <<>>
  ELSE IF StartsWith(pathText, "/") THEN Split(From(pathText, 2), "/")
  ELSE Split(pathText, "/")

\* A path is never empty: the path of http://host is the one empty segment.
NonEmptyPath(path) == IF path = <<>> THEN <<"">> ELSE path

\* The query and fragment of the text rest, which starts at a "?" or a "#" or
\* is empty; its "#" is at hash.
QueryFragment(path, rest, hash) ==
  [path |-> path,
   query |-> IF StartsWith(rest, "?") THEN Str(SubSeq(rest, 2, hash - 1)) ELSE Null,
   fragment |-> IF hash <= Len(rest) THEN Str(From(rest, hash + 1)) ELSE Null]

\* The text s split at pathEnd, where its path ends.
SplitAtPathEnd(s, start, pathEnd) ==
  QueryFragment(NonEmptyPath(AppendSegments(start, SegmentsOf(SubSeq(s, 1, pathEnd - 1)))),
                From(s, pathEnd), FirstOf(From(s, pathEnd), {"#"}))

\* The path, query and fragment of the text s that follows an authority or
\* stands for a whole relative reference; the path is resolved after the
\* segments of start.
ParsePathQueryFragment(s, start) == SplitAtPathEnd(s, start, FirstOf(s, {"?", "#"}))

\* The scheme of an absolute http(s) URL string, "" for any other string.
SchemeOf(s) ==
  IF StartsWith(s, "https://") THEN "https"
  ELSE IF StartsWith(s, "http://") THEN "http"
  ELSE ""

\* The URL of a scheme, a host and the path, query and fragment pqf.
UrlOf(scheme, host, pqf) ==
  IF host = "" THEN UrlFail
  ELSE [ok |-> TRUE, scheme |-> scheme, host |-> host, path |-> pqf.path,
        query |-> pqf.query, fragment |-> pqf.fragment]

\* The text after "//" split at hostEnd, where its host ends.
SplitAtHostEnd(scheme, afterSlashes, hostEnd) ==
  UrlOf(scheme, SubSeq(afterSlashes, 1, hostEnd - 1),
        ParsePathQueryFragment(From(afterSlashes, hostEnd), <<>>))

\* scheme://authority... parsed: the text after the "//" is afterSlashes.
ParseAuthority(scheme, afterSlashes) ==
  SplitAtHostEnd(scheme, afterSlashes, FirstOf(afterSlashes, {"/", "?", "#"}))

\* new URL(s) of an absolute URL string; fails (TypeError) for any other.
ParseAbsolute(s) ==
  IF SchemeOf(s) = "" THEN UrlFail
  ELSE ParseAuthority(SchemeOf(s), From(s, Len(SchemeOf(s)) + 4))

\* The base b with the path, query and fragment pqf of a reference.
WithReference(b, pqf) ==
  [b EXCEPT !.path = pqf.path, !.query = pqf.query, !.fragment = pqf.fragment]

\* The relative reference input resolved against the parsed base b.
Resolve(input, b) ==
  IF ~b.ok THEN UrlFail
  ELSE IF StartsWith(input, "//") THEN ParseAuthority(b.scheme, From(input, 3))
  ELSE IF input = "" THEN [b EXCEPT !.fragment = Null]
  ELSE IF StartsWith(input, "#") THEN [b EXCEPT !.fragment = Str(From(input, 2))]
  ELSE IF StartsWith(input, "?")
  THEN WithReference(b, ParsePathQueryFragment(input, b.path))
  ELSE IF StartsWith(input, "/")
  THEN WithReference(b, ParsePathQueryFragment(input, <<>>))
  ELSE WithReference(b, ParsePathQueryFragment(input, SubSeq(b.path, 1, Len(b.path) - 1)))

\* new URL(input, base): base is a string or undefined.
NewURL(input, base) ==
  IF SchemeOf(input) # "" THEN ParseAbsolute(input)
  ELSE IF base.t = "undefined" THEN UrlFail
  ELSE Resolve(input, ParseAbsolute(base.v))

\* url.search = value
SetSearch(url, value) ==
  IF value = "" THEN [url EXCEPT !.query = Null]
  ELSE [url EXCEPT !.query = Str(IF StartsWith(value, "?") THEN From(value, 2) ELSE value)]

\* url.pathname
Pathname(url) == "/" \o Join(url.path, "/")

\* url.href
Href(url) ==
  url.scheme \o "://" \o url.host \o Pathname(url)
    \o (IF url.query.t = "str" THEN "?" \o url.query.v ELSE "")
    \o (IF url.fragment.t = "str" THEN "#" \o url.fragment.v ELSE "")


(***************************************************************************)
(* The platform's Response and Headers.  A response is its status, its     *)
(* status text, its header entries (names in lower case, as Headers keeps  *)
(* them) and the bytes of its body.                                        *)
(***************************************************************************)
Upper == <<"A", "B", "C", "D", "E", "F", "G", "H", "I", "J", "K", "L", "M",
           "N", "O", "P", "Q", "R", "S", "T", "U", "V", "W", "X", "Y", "Z">>
Lower == <<"a", "b", "c", "d", "e", "f", "g", "h", "i", "j", "k", "l", "m",
           "n", "o", "p", "q", "r", "s", "t", "u", "v", "w", "x", "y", "z">>

\* s.toLowerCase()
RECURSIVE ToLowerCase(_)
ToLowerCase(s) ==
  IF s = "" THEN ""
  ELSE LET c == SubSeq(s, 1, 1)
       IN (IF \E k \in 1..26 : Upper[k] = c
           THEN Lower[CHOOSE k \in 1..26 : Upper[k] = c] ELSE c)
            \o ToLowerCase(From(s, 2))

\* headers.get(name): the value, or null; names match in any letter case.
HeadersGet(headers, name) ==
  IF \E k \in 1..Len(headers) : headers[k][1] = ToLowerCase(name)
  THEN Str(headers[CHOOSE k \in 1..Len(headers) : headers[k][1] = ToLowerCase(name)][2])
  ELSE Null

\* Object.fromEntries(headers.entries())
RECURSIVE FromEntries(_, _)
FromEntries(entries, props) ==
  IF entries = <<>> THEN Obj(props)
  ELSE FromEntries(Tail(entries), SetProp(props, Head(entries)[1], Str(Head(entries)[2])))

\* A response.ok that holds for status 200 alone.
IsOkOnly200(response) == response.status = 200

\* A response.ok that holds for every status below 400.
IsOkBelow400(response) == response.status >= 200 /\ response.status <= 399

\* response.ok
IsOk(response) == response.status >= 200 /\ response.status <= 299

\* The statuses whose responses carry no body: response.body is null.
NullBodyStatus == {101, 103, 204, 205, 304}

\* response.body
BodyStream(response) ==
  IF response.status \in NullBodyStatus THEN Null ELSE Stream(response.body)

\* What an awaited promise gives: a value, or the error it rejects with.
Fulfilled(value, reads) == [ok |-> TRUE, value |-> value, reads |-> reads]
Rejected(error, reads) == [ok |-> FALSE, error |-> error, reads |-> reads]

Error(name, message, cause) ==
  [kind |-> "error", name |-> name, message |-> message, cause |-> cause]

\* The SyntaxError of JSON.parse and response.json(); its message is the engine's.
JsonSyntaxError == Error("SyntaxError", "Unexpected token in JSON", Undefined)

\* The promise of a parse result r: fulfilled with its value, or rejected
\* with the SyntaxError.
JsonPromise(r) ==
  IF r.ok THEN Fulfilled(r.value, <<"json">>) ELSE Rejected(JsonSyntaxError, <<"json">>)

\* response.json(), response.text(), response.blob(): each names itself in
\* the reads it leaves on the response.
ResponseJson(response) == JsonPromise(JsonParse(response.body))

ResponseText(response) == Fulfilled(Str(response.body), <<"text">>)

ResponseBlob(response) == Fulfilled(Blob(Len(response.body)), <<"blob">>)

\* promise.then((v) => v || fallback)
ThenOrElse(promise, fallback) ==
  IF promise.ok THEN Fulfilled(OrElse(promise.value, fallback), promise.reads)
  ELSE promise

(***************************************************************************)
(* Requester.ts                                                            *)
(***************************************************************************)

\* new Agent({ rejectUnauthorized }) of the https module.
Agent(rejectUnauthorized) == [t |-> "agent", rejectUnauthorized |-> rejectUnauthorized]

\* baseOptionsHandler of @gitbeaker/requester-utils: the request options of
\* the resource and the request; it sets no agent.
BaseOptionsHandler(resourceOptions, requestOptions) ==
  [method |-> requestOptions.method, headers |-> resourceOptions.headers,
   agent |-> Undefined]

\* defaultOptionsHandler, lines 20-32: the options, with the agent when the
\* condition holds; typeofWindow is what typeof window gives.
WithAgent(options, resourceOptions, typeofWindow) ==
  IF /\ Includes(resourceOptions.url, "https")
     /\ resourceOptions.rejectUnauthorized \notin {Null, Undefined}
     /\ resourceOptions.rejectUnauthorized = Bool(FALSE)
  THEN IF typeofWindow # "object" THEN [options EXCEPT !.agent = Agent(FALSE)]
       ELSE options
  ELSE options

\* defaultOptionsHandler
DefaultOptionsHandler(resourceOptions, requestOptions, typeofWindow) ==
  WithAgent(BaseOptionsHandler(resourceOptions, requestOptions), resourceOptions,
            typeofWindow)

\* A content type that keeps its parameters.
ContentTypeWithParameters(response) ==
  Trim(OrElse(HeadersGet(response.headers, "content-type"), Str("")).v)

\* processBody, line 39: the declared content type without its parameters.
ContentTypeOf(response) ==
  Trim(SplitFirst(OrElse(HeadersGet(response.headers, "content-type"), Str("")).v, ";"))

\* processBody, lines 41-49, for the content type contentType.
ProcessBodyAs(contentType, response) ==
  IF contentType = "application/json" THEN ThenOrElse(ResponseJson(response), EmptyObj)
  ELSE IF StartsWith(contentType, "text/") THEN ThenOrElse(ResponseText(response), Str(""))
  ELSE ResponseBlob(response)

\* processBody
ProcessBody(response) == ProcessBodyAs(ContentTypeOf(response), response)

\* delay(ms): the timeout handed to setTimeout, in microseconds.
Delay(micros) == micros

RECURSIVE Pow2(_)
Pow2(n) == IF n = 0 THEN 1 ELSE 2 * Pow2(n - 1)

\* The argument of delay at attempt i, 2 ** i * 0.1 milliseconds, in
\* microseconds.
Backoff(n) == Pow2(n) * 100

\* parseResponse, line 69: the result, once the body promise is settled.
ParsedResponse(response, body) ==
  IF body.ok
  THEN Fulfilled([kind |-> "ok", body |-> body.value,
                  headers |-> FromEntries(response.headers, <<>>),
                  status |-> response.status], body.reads)
  ELSE body

\* A parseResponse that decodes the body of a 204 like any other.
ParseResponseDecoding204(response, asStream) ==
  IF ~Falsy(asStream) THEN ParsedResponse(response, Fulfilled(BodyStream(response), <<>>))
  ELSE ParsedResponse(response, ProcessBody(response))

\* A parseResponse that decodes the body whether or not a stream is asked for.
ParseResponseNeverStreaming(response, asStream) ==
  IF response.status = 204 THEN ParsedResponse(response, Fulfilled(Null, <<>>))
  ELSE ParsedResponse(response, ProcessBody(response))

\* parseResponse
ParseResponse(response, asStream) ==
  IF ~Falsy(asStream) THEN ParsedResponse(response, Fulfilled(BodyStream(response), <<>>))
  ELSE IF response.status = 204 THEN ParsedResponse(response, Fulfilled(Null, <<>>))
  ELSE ParsedResponse(response, ProcessBody(response))

\* throwFailedRequestError, lines 85-90: the error thrown.
FailedRequestError(response, description) ==
  Rejected(Error("Error", response.statusText,
                 [description |-> description, response |-> response]), <<"text">>)

\* A description that falls back to the response text when the body is not
\* valid JSON.
JsonDescriptionOrText(response, output) ==
  IF ~output.ok THEN FailedRequestError(response, Str(response.body))
  ELSE IF output.value.t = "null"
  THEN Rejected(Error("TypeError", "Cannot read properties of null", Undefined),
                <<"text">>)
  ELSE FailedRequestError(response,
         Stringify(OrElse(Prop(output.value, "error"), Prop(output.value, "message"))))

\* throwFailedRequestError, lines 78-80, with the parse result output.
JsonDescription(response, output) ==
  IF ~output.ok THEN Rejected(JsonSyntaxError, <<"text">>)
  ELSE IF output.value.t = "null"
  THEN Rejected(Error("TypeError", "Cannot read properties of null", Undefined),
                <<"text">>)
  ELSE FailedRequestError(response,
         Stringify(OrElse(Prop(output.value, "error"), Prop(output.value, "message"))))

\* throwFailedRequestError, lines 74-83, with the text content and the
\* declared content type.
DescribeFailure(response, content, contentType) ==
  IF contentType.t = "str" /\ Includes(contentType.v, "application/json")
  THEN JsonDescription(response, JsonParse(content.v))
  ELSE FailedRequestError(response, content)

\* throwFailedRequestError: always rejects.
ThrowFailedRequestError(response) ==
  DescribeFailure(response, ResponseText(response).value,
                  HeadersGet(response.headers, "Content-Type"))

\* A getConditionalMode that leaves every endpoint in the default mode.
GetConditionalModeDefault(endpoint) == Undefined

\* getConditionalMode
GetConditionalMode(endpoint) ==
  IF Includes(endpoint, "repository/archive") THEN Str("same-origin") ELSE Undefined

\* A retry set that takes 501 for a transient status too.
retryCodesWith501 == {429, 501, 502}

retryCodes == {429, 502}

\* A loop bound off by one.
maxRetriesPlusOne == 10 + 1

maxRetries == 10

\* A base URL that is the prefix as given.
BaseUrlAsGiven(prefixUrl) == IF Falsy(prefixUrl) THEN Undefined ELSE prefixUrl

\* defaultRequestHandler, line 104: baseUrl
BaseUrl(prefixUrl) ==
  IF Falsy(prefixUrl) THEN Undefined
  ELSE IF EndsWith(prefixUrl.v, "/") THEN prefixUrl ELSE Str(prefixUrl.v \o "/")

\* defaultRequestHandler, line 108: url.search = searchParams || ''
WithSearch(u, searchParams) ==
  IF u.ok THEN SetSearch(u, OrElse(searchParams, Str("")).v) ELSE u

\* defaultRequestHandler, lines 104-108: url
RequestUrl(ep, opts) == WithSearch(NewURL(ep, BaseUrl(opts.prefixUrl)), opts.searchParams)

\* A catch handler that translates the TimeoutError alone.
CatchTimeoutOnly(e) ==
  IF e.name = "TimeoutError" THEN Error("Error", "Query timeout was reached", Undefined)
  ELSE e

\* The catch handler of the fetch call, lines 115-121.
CatchFetch(e) ==
  IF e.name = "TimeoutError" \/ e.name = "AbortError"
  THEN Error("Error", "Query timeout was reached", Undefined)
  ELSE e

\* The call ends with the settled promise r: its value returned, or its
\* error thrown.
Ended(r) ==
  [next |-> "done", reads |-> r.reads, outcome |-> IF r.ok THEN r.value ELSE r.error]

\* What the loop body does with a response, lines 123-127: return, throw, or
\* go on to the delay.
OnResponse(response, asStream) ==
  IF IsOk(response) THEN Ended(ParseResponse(response, asStream))
  ELSE IF response.status \notin retryCodes THEN Ended(ThrowFailedRequestError(response))
  ELSE [next |-> "delay", reads |-> <<>>, outcome |-> [kind |-> "pending"]]

\* The error thrown after the loop, line 134.
RetriesExhausted == Error("Error", "Could not successfully complete this request", Undefined)

\* What new URL throws for a string it cannot parse.
InvalidUrl == Error("TypeError", "Invalid URL", Undefined)


(***************************************************************************)
(* The inputs of the model: the calls made and what the network answers.   *)
(***************************************************************************)
NoOptions == [prefixUrl |-> Undefined, searchParams |-> Undefined, asStream |-> Undefined]

\* The calls of the executor's specification.
Requests ==
  { [endpoint |-> "http://test.com", options |-> NoOptions],
    [endpoint |-> "http://test.com/repository/archive", options |-> NoOptions],
    [endpoint |-> "testurl/123",
     options |-> [NoOptions EXCEPT !.prefixUrl = Str("http://test.com/projects"),
                                   !.searchParams = Str("test=4")]],
    [endpoint |-> "testurl", options |-> NoOptions] }

AsStreamValues == {Undefined, Bool(FALSE), Bool(TRUE)}

\* The endpoints, prefixes and search parameters of the URL specification.
UrlEndpoints ==
  {"/testurl/123", "../testurl", "a/./b", "testurl/123", "123/testurl", "testurl",
   "testurl/", "items?page=2", "http://other.com/x?y=1"}

UrlPrefixes ==
  {Undefined, Str(""), Str("http://test.com"), Str("http://test.com/"),
   Str("http://test.com/projects"), Str("http://test.com/projects/"),
   Str("https://gitlab.com/api/v4"), Str("https://gitlab.com/api/v4/"),
   Str("http://test.com/projects?x=1")}

UrlSearchParams == {Undefined, Str(""), Str("test=4")}

Statuses == {200, 204, 304, 404, 429, 501, 502}

StatusText(status) ==
  CASE status = 200 -> "OK"
    [] status = 204 -> "No Content"
    [] status = 304 -> "Not Modified"
    [] status = 404 -> "Not Found"
    [] status = 429 -> "Too Many Requests"
    [] status = 501 -> "Really Bad Error"
    [] status = 502 -> "Bad Gateway"

\* The header entries of the responses: none, or a content type.
HeaderSets ==
  { <<>> } \cup
  { << <<"content-type", ct>> >> :
      ct \in {"application/json", "application/json ; charset=utf-8", "text/plain",
              "text/html;charset=utf-8", "image/png", "application/jsonl"} }

Bodies ==
  {"", "null", "0", "false", "\"\"", "{\"test\":5}", "{\"error\":\"msg\"}",
   "{\"message\":\"m\"}", "{\"error\":\"\",\"message\":\"m\"}",
   "{\"error\":{\"a\":1},\"message\":\"m\"}", "<html>"}

\* The responses fetch resolves with; a response of a null body status has
\* no bytes to read.
Responses ==
  { r \in { [status |-> st, statusText |-> StatusText(st), headers |-> h, body |-> b] :
              st \in Statuses, h \in HeaderSets, b \in Bodies } :
      r.status \in NullBodyStatus => r.body = "" }

\* One response of each kind, for the specification with fairness: ok with
\* a JSON body, with an empty one and with none, not modified, failed with a
\* text, with a JSON error, with a body that is not JSON and with the JSON
\* null, and the two retryable ones.
LiveResponses ==
  { r \in Responses :
      \/ r.headers = <<>> /\ r.body = "" /\ r.status \in {204, 304, 429, 502}
      \/ r.headers = << <<"content-type", "application/json">> >>
           /\ \/ r.status = 200 /\ r.body \in {"", "{\"test\":5}"}
              \/ r.status = 501 /\ r.body \in {"{\"error\":\"msg\"}", "<html>", "null"}
      \/ r.headers = << <<"content-type", "text/plain">> >>
           /\ r.status = 404 /\ r.body = "<html>" }

\* What fetch rejects with.
TransportErrors ==
  { Error("TimeoutError", "The operation was aborted due to timeout", Undefined),
    Error("AbortError", "This operation was aborted", Undefined),
    Error("TypeError", "fetch failed", Undefined) }

NoResponse == [status |-> 0]
Pending == [kind |-> "pending"]

\* The resources and requests of the option resolver's specification, and
\* what typeof window gives: 'undefined' outside a browser, 'object' in one.
ResourceUrls ==
  {"https://test.com", "http://test.com", "testurl", "https://gitlab.com/api/v4",
   "http://gitlab.com/api/v4", "http://test.com/https", "http://https.test.com"}

RejectUnauthorizedValues == {Undefined, Null, Bool(TRUE), Bool(FALSE)}

ResourceOptions ==
  [url : ResourceUrls, rejectUnauthorized : RejectUnauthorizedValues,
   headers : {Obj(<< <<"test", Str("5")>> >>)}]

RequestOptions == [method : {"get", "post"}]

WindowTypes == {"undefined", "object"}

\* The calls that run at once in the concurrent specification, and what the
\* network answers them.
NumCalls == 2

CallIds == 1..NumCalls

ConcurrentRequests ==
  << [endpoint |-> "http://test.com", options |-> NoOptions],
     [endpoint |-> "http://test.com/repository/archive", options |-> NoOptions],
     [endpoint |-> "testurl/123",
      options |-> [NoOptions EXCEPT !.prefixUrl = Str("http://test.com/projects"),
                                    !.searchParams = Str("test=4")]] >>

RequestOf(c) == ConcurrentRequests[((c - 1) % 3) + 1]

ConcurrentResponses ==
  { [status |-> 429, statusText |-> StatusText(429), headers |-> <<>>, body |-> ""],
    [status |-> 502, statusText |-> StatusText(502), headers |-> <<>>, body |-> ""],
    [status |-> 200, statusText |-> StatusText(200),
     headers |-> << <<"content-type", "application/json">> >>, body |-> "{\"test\":5}"],
    [status |-> 501, statusText |-> StatusText(501),
     headers |-> << <<"content-type", "application/json">> >>,
     body |-> "{\"error\":\"msg\"}"] }

ConcurrentErrors == {Error("TimeoutError", "The operation was aborted due to timeout", Undefined)}

\* The resource of a call whose options are resolved already.
NoResource == [url |-> "", rejectUnauthorized |-> Undefined, headers |-> EmptyObj]

(***************************************************************************)
(* One call of defaultRequestHandler.                                      *)
(***************************************************************************)
VARIABLES
  endpoint,   \* the endpoint argument
  options,    \* the options argument: prefixUrl, searchParams, asStream
  pc,         \* "start", "fetching" (awaiting fetch), "delaying" (awaiting delay), "done"
  i,          \* the loop index
  url,        \* the URL built before the loop
  mode,       \* the mode computed before the loop
  requests,   \* the fetch calls made so far: <<href, mode>> each
  response,   \* the response of the current attempt
  failure,    \* what fetch rejected with, if it did
  seen,       \* how many responses of each status have arrived
  reads,      \* the body reads made on the current response
  waits,      \* the timeouts of the delays started so far, in microseconds
  outcome,    \* the result the call returned or the error it threw
  resourceOptions,  \* defaultOptionsHandler's first argument
  requestOptions,   \* defaultOptionsHandler's second argument
  typeofWindow,     \* typeof window in the environment
  resolved,         \* the options defaultOptionsHandler resolved with
  running,          \* the invocations that run at once: the locals of each
  index             \* the loop index i of each invocation's frame

\* The variables of defaultRequestHandler and those of defaultOptionsHandler.
callVars == <<endpoint, options, pc, i, url, mode, requests, response, failure, seen,
              reads, waits, outcome>>
optionVars == <<resourceOptions, requestOptions, typeofWindow, resolved>>

concurrentVars == <<running, index>>

vars == <<callVars, optionVars, concurrentVars>>

calls == Len(requests)

InitCall ==
  /\ pc = "start"
  /\ i = 0
  /\ url = UrlFail
  /\ mode = Undefined
  /\ requests = <<>>
  /\ response = NoResponse
  /\ failure = Pending
  /\ seen = [st \in Statuses |-> 0]
  /\ reads = <<>>
  /\ waits = <<>>
  /\ outcome = Pending

\* No options are being resolved.
InitNoResource ==
  /\ resourceOptions = NoResource
  /\ requestOptions = [method |-> "get"]
  /\ typeofWindow = "undefined"
  /\ resolved = Pending
  /\ running = <<>>
  /\ index = <<>>

Init ==
  /\ \E r \in Requests, s \in AsStreamValues :
       /\ endpoint = r.endpoint
       /\ options = [r.options EXCEPT !.asStream = s]
  /\ InitCall
  /\ InitNoResource

\* The head of the loop at index n: the next fetch call, or the throw after
\* the loop.
LoopHead(n) ==
  IF n < maxRetries
  THEN /\ requests' = Append(requests, <<Href(url'), mode'>>)
       /\ pc' = "fetching"
       /\ outcome' = Pending
  ELSE /\ requests' = requests
       /\ pc' = "done"
       /\ outcome' = RetriesExhausted

\* Lines 99-115: the URL, the mode, and the first fetch call.
Start ==
  /\ pc = "start"
  /\ url' = RequestUrl(endpoint, options)
  /\ mode' = GetConditionalMode(endpoint)
  /\ IF url'.ok
     THEN LoopHead(0)
     ELSE /\ pc' = "done"
          /\ outcome' = InvalidUrl
          /\ requests' = requests
  /\ UNCHANGED <<endpoint, options, i, response, failure, seen, reads, waits>>
  /\ UNCHANGED <<optionVars, concurrentVars>>

\* The fetch call rejects: lines 115-121.
FetchRejects ==
  /\ pc = "fetching"
  /\ \E e \in TransportErrors :
       /\ failure' = e
       /\ outcome' = CatchFetch(e)
  /\ pc' = "done"
  /\ UNCHANGED <<endpoint, options, i, url, mode, requests, response, seen, reads, waits>>
  /\ UNCHANGED <<optionVars, concurrentVars>>

\* The loop body took the step step: the call is over, or the delay starts.
Took(step) ==
  /\ reads' = step.reads
  /\ outcome' = step.outcome
  /\ IF step.next = "delay"
     THEN /\ waits' = Append(waits, Delay(Backoff(i)))
          /\ pc' = "delaying"
     ELSE /\ waits' = waits
          /\ pc' = "done"

\* The fetch call resolves with a response: lines 123-127.
FetchResolves ==
  /\ pc = "fetching"
  /\ \E r \in Responses :
       /\ response' = r
       /\ seen' = [seen EXCEPT ![r.status] = @ + 1]
       /\ Took(OnResponse(r, options.asStream))
  /\ UNCHANGED <<endpoint, options, i, url, mode, requests, failure>>
  /\ UNCHANGED <<optionVars, concurrentVars>>

\* The delay is over: lines 127-131 and 114, the next turn of the loop.
DelayResolves ==
  /\ pc = "delaying"
  /\ i' = i + 1
  /\ response' = NoResponse
  /\ reads' = <<>>
  /\ UNCHANGED <<url, mode>>
  /\ LoopHead(i + 1)
  /\ UNCHANGED <<endpoint, options, failure, seen, waits>>
  /\ UNCHANGED <<optionVars, concurrentVars>>

Next == Start \/ FetchRejects \/ FetchResolves \/ DelayResolves

Spec == Init /\ [][Next]_vars

\* The call when every network call and every wait completes: the awaited
\* fetch promise settles and the timer of the delay fires.  The network
\* answers with one response of each kind.
LiveFetchResolves ==
  /\ pc = "fetching"
  /\ \E r \in LiveResponses :
       /\ response' = r
       /\ seen' = [seen EXCEPT ![r.status] = @ + 1]
       /\ Took(OnResponse(r, options.asStream))
  /\ UNCHANGED <<endpoint, options, i, url, mode, requests, failure>>
  /\ UNCHANGED <<optionVars, concurrentVars>>

NextLive == Start \/ FetchRejects \/ LiveFetchResolves \/ DelayResolves

SpecLive ==
  /\ Init
  /\ [][NextLive]_vars
  /\ WF_vars(FetchRejects \/ LiveFetchResolves)
  /\ WF_vars(DelayResolves)

\* The URL construction alone, over more endpoints and prefixes: the call up
\* to its first fetch.
InitUrl ==
  /\ endpoint \in UrlEndpoints
  /\ options \in [prefixUrl : UrlPrefixes, searchParams : UrlSearchParams,
                  asStream : {Undefined}]
  /\ InitCall
  /\ InitNoResource

NextUrl == Start

SpecUrl == InitUrl /\ [][NextUrl]_vars

\* defaultOptionsHandler alone: one call of it, in either environment.
InitOptions ==
  /\ resourceOptions \in ResourceOptions
  /\ requestOptions \in RequestOptions
  /\ typeofWindow \in WindowTypes
  /\ resolved = Pending
  /\ running = <<>>
  /\ index = <<>>
  /\ endpoint = ""
  /\ options = NoOptions
  /\ InitCall

\* defaultOptionsHandler, lines 11-35.
ResolveOptions ==
  /\ resolved = Pending
  /\ resolved' = DefaultOptionsHandler(resourceOptions, requestOptions, typeofWindow)
  /\ UNCHANGED <<resourceOptions, requestOptions, typeofWindow>>
  /\ UNCHANGED <<callVars, concurrentVars>>

NextOptions == ResolveOptions

SpecOptions == InitOptions /\ [][NextOptions]_vars

(***************************************************************************)
(* Several calls of defaultRequestHandler at once.  Each invocation has    *)
(* its locals (url, mode, response, ...) in running[c]; its loop index is  *)
(* the i of its own frame.                                                 *)
(***************************************************************************)

\* A loop index that all invocations share.
FrameShared(c) == 1

\* The frame that holds the loop index of invocation c: `let i` of line 114
\* is a local of the invocation.
FrameOf(c) == c

InitConcurrent ==
  /\ running = [c \in CallIds |->
                  [endpoint |-> RequestOf(c).endpoint, options |-> RequestOf(c).options,
                   pc |-> "start", url |-> UrlFail, mode |-> Undefined,
                   requests |-> <<>>, response |-> NoResponse, failure |-> Pending,
                   reads |-> <<>>, waits |-> <<>>, outcome |-> Pending,
                   answered |-> 0]]
  /\ index = [c \in CallIds |-> 0]
  /\ endpoint = ""
  /\ options = NoOptions
  /\ InitCall
  /\ resourceOptions = NoResource
  /\ requestOptions = [method |-> "get"]
  /\ typeofWindow = "undefined"
  /\ resolved = Pending

\* The invocation call at the head of the loop with index n: the next fetch
\* call, or the throw after the loop.
AtLoopHead(call, n) ==
  IF n < maxRetries
  THEN [call EXCEPT !.requests = Append(@, <<Href(call.url), call.mode>>),
                    !.pc = "fetching"]
  ELSE [call EXCEPT !.pc = "done", !.outcome = RetriesExhausted]

\* Lines 99-115 of the invocation call, with the URL u and the mode m.
Started(call, u, m) ==
  IF u.ok THEN AtLoopHead([call EXCEPT !.url = u, !.mode = m], 0)
  ELSE [call EXCEPT !.url = u, !.mode = m, !.pc = "done", !.outcome = InvalidUrl]

CallStarts(c) ==
  /\ running[c].pc = "start"
  /\ running' = [running EXCEPT ![c] =
                   Started(@, RequestUrl(@.endpoint, @.options),
                           GetConditionalMode(@.endpoint))]
  /\ index' = [index EXCEPT ![FrameOf(c)] = 0]
  /\ UNCHANGED <<callVars, optionVars>>

\* The fetch call of invocation c rejects: lines 115-121.
CallFetchRejects(c) ==
  /\ running[c].pc = "fetching"
  /\ \E e \in ConcurrentErrors :
       running' = [running EXCEPT ![c] =
                     [@ EXCEPT !.failure = e, !.outcome = CatchFetch(e), !.pc = "done",
                               !.answered = @ + 1]]
  /\ UNCHANGED <<index, callVars, optionVars>>

\* The invocation call after the response r, the loop body having taken the
\* step step at the index n: lines 123-127.
Responded(call, r, step, n) ==
  [call EXCEPT !.response = r, !.reads = step.reads, !.outcome = step.outcome,
               !.answered = @ + 1,
               !.waits = IF step.next = "delay" THEN Append(@, Delay(Backoff(n))) ELSE @,
               !.pc = IF step.next = "delay" THEN "delaying" ELSE "done"]

\* The fetch call of invocation c resolves with a response.
CallFetchResolves(c) ==
  /\ running[c].pc = "fetching"
  /\ \E r \in ConcurrentResponses :
       running' = [running EXCEPT ![c] =
                     Responded(@, r, OnResponse(r, @.options.asStream),
                               index[FrameOf(c)])]
  /\ UNCHANGED <<index, callVars, optionVars>>

\* The delay of invocation c is over: lines 127-131 and 114.
CallDelayResolves(c) ==
  /\ running[c].pc = "delaying"
  /\ index' = [index EXCEPT ![FrameOf(c)] = @ + 1]
  /\ running' = [running EXCEPT ![c] =
                   AtLoopHead([@ EXCEPT !.response = NoResponse, !.reads = <<>>],
                              index'[FrameOf(c)])]
  /\ UNCHANGED <<callVars, optionVars>>

NextConcurrent ==
  \E c \in CallIds :
    \/ CallStarts(c)
    \/ CallFetchRejects(c)
    \/ CallFetchResolves(c)
    \/ CallDelayResolves(c)

SpecConcurrent == InitConcurrent /\ [][NextConcurrent]_vars


(***************************************************************************)
(* The claims.                                                             *)
(***************************************************************************)

\* The number of responses with a retryable status (429 or 502) so far.
Retried == seen[429] + seen[502]

RECURSIVE CountOver(_)
CountOver(sts) ==
  IF sts = {} THEN 0
  ELSE LET st == CHOOSE x \in sts : TRUE IN seen[st] + CountOver(sts \ {st})

\* The number of responses so far.
Received == CountOver(Statuses)

\* The current attempt has a response, and it is ok.
GotOk == response # NoResponse /\ response.status >= 200 /\ response.status <= 299

\* The current attempt has a response that is not ok and not retryable.
GotFailure ==
  /\ response # NoResponse
  /\ ~(response.status >= 200 /\ response.status <= 299)
  /\ response.status \notin {429, 502}

\* The declared content type of the current response, '' when it has none.
Declared == IF response.headers = <<>> THEN "" ELSE response.headers[1][2]

\* The current response is one processBody reads as JSON.
ReadAsJson ==
  /\ GotOk
  /\ options.asStream \in {Undefined, Bool(FALSE)}
  /\ response.status # 204
  /\ Trim(SplitFirst(Declared, ";")) = "application/json"

\* The call returned { body, headers, status } with the headers and the
\* status of the current response.
ReturnedFromResponse ==
  /\ pc = "done"
  /\ outcome.kind = "ok"
  /\ outcome.status = response.status
  /\ outcome.headers = FromEntries(response.headers, <<>>)

\* C1 as claimed: for every k < 10, when the first k responses are retryable
\* (429 or 502) and response k+1 is ok, exactly k+1 network calls are made and
\* the call returns a successful { body, headers, status } built from
\* response k+1.
C1_SuccessAfterRetries ==
  (GotOk /\ Retried < 10 /\ Received = Retried + 1)
    => (calls = Retried + 1 /\ ReturnedFromResponse)

\* C1 as amended: for every k < 10, when the first k responses are retryable
\* and response k+1 is ok, exactly k+1 network calls are made and the call
\* ends on response k+1 with the result of decoding it: { body, headers,
\* status } built from it, or, when the body is read as JSON and the read
\* fails, the parse error.  A call never gives up before its 10th retryable
\* response.
C1_EndsOnFirstOk ==
  /\ (GotOk /\ Retried < 10 /\ Received = Retried + 1)
       => /\ calls = Retried + 1
          /\ pc = "done"
          /\ IF ReadAsJson /\ ~JsonParse(response.body).ok
             THEN outcome = JsonSyntaxError
             ELSE ReturnedFromResponse
  /\ (pc = "done" /\ Retried < 10) => outcome # RetriesExhausted

\* C1 witness: nine retryable responses, of both statuses, then an ok one: ten
\* calls and a success.
C1_Witness ==
  /\ seen[429] >= 1 /\ seen[502] >= 1 /\ Retried = 9
  /\ GotOk /\ response.status = 200
  /\ calls = 10 /\ outcome.kind = "ok"

\* C2: when 10 consecutive responses are retryable (any mix of 429 and 502),
\* exactly 10 network calls are made, never an 11th, and the call fails with
\* the message "Could not successfully complete this request", not with a
\* status text.
C2_RetriesExhausted ==
  /\ calls <= 10
  /\ Retried <= 10
  /\ Retried = 10 =>
       /\ calls = 10
       /\ pc \in {"delaying", "done"}
       /\ pc = "done" =>
            /\ outcome.kind = "error"
            /\ outcome.message = "Could not successfully complete this request"
            /\ outcome.cause = Undefined
  /\ (pc = "done" /\ outcome.kind = "error"
        /\ outcome.message = "Could not successfully complete this request")
       => Retried = 10

\* C2 witness: the call has failed after ten retryable responses of both
\* statuses.
C2_Witness ==
  /\ pc = "done" /\ outcome = RetriesExhausted
  /\ seen[429] >= 1 /\ seen[502] >= 1 /\ Retried = 10 /\ calls = 10

\* The error the body of an error response raises when it is declared JSON
\* and is not valid JSON (a SyntaxError) or is the JSON null (a TypeError).
UnreadableJsonError ==
  IF ~JsonParse(response.body).ok THEN "SyntaxError"
  ELSE IF JsonParse(response.body).value = Null THEN "TypeError"
  ELSE ""

\* C3 as claimed: at any attempt, a response that is not ok and whose status
\* is outside {429, 502} ends the call at once, with no further network call
\* and no wait after it, and the error's message is the response's status text.
C3_FailsWithStatusText ==
  GotFailure =>
    /\ pc = "done"
    /\ calls = i + 1
    /\ Len(waits) = i
    /\ outcome.kind = "error"
    /\ outcome.message = response.statusText

\* C3 as amended: such a response ends the call at once, with no further
\* network call and no wait after it; the error's message is the response's
\* status text, unless the declared content type contains 'application/json'
\* and the body is not valid JSON or is the JSON null: then the error raised
\* on reading the body (a SyntaxError, a TypeError) is thrown instead.
C3_FailsAtOnce ==
  GotFailure =>
    /\ pc = "done"
    /\ calls = i + 1
    /\ Len(waits) = i
    /\ outcome.kind = "error"
    /\ IF Includes(Declared, "application/json") /\ UnreadableJsonError # ""
       THEN outcome.name = UnreadableJsonError /\ outcome.cause = Undefined
       ELSE outcome.name = "Error" /\ outcome.message = response.statusText

\* C3 witness: a 501 "Really Bad Error" after two retries ends the call with
\* that message, three calls and two waits.
C3_Witness ==
  /\ GotFailure /\ response.status = 501 /\ i = 2
  /\ pc = "done" /\ outcome.message = "Really Bad Error"
  /\ calls = 3 /\ Len(waits) = 2

\* C4: a transport failure of the network call, at any attempt, ends the call
\* with no further attempt and no wait: a TimeoutError or AbortError becomes
\* an error with the message "Query timeout was reached", any other failure
\* is thrown unchanged.
C4_TransportFailure ==
  failure # Pending =>
    /\ pc = "done"
    /\ calls = i + 1
    /\ Len(waits) = i
    /\ IF failure.name \in {"TimeoutError", "AbortError"}
       THEN outcome = [kind |-> "error", name |-> "Error",
                       message |-> "Query timeout was reached", cause |-> Undefined]
       ELSE outcome = failure

\* C4 witness: an AbortError at the fourth attempt ends the call with the
\* timeout message.
C4_Witness ==
  /\ failure # Pending /\ failure.name = "AbortError" /\ i = 3
  /\ pc = "done" /\ outcome.message = "Query timeout was reached" /\ calls = 4

\* C5 as claimed: the wait after a retryable response at attempt index i is
\* exactly 100 ms * 2^i (100000 * 2^i microseconds).
C5_BackoffMillis ==
  \A k \in 1..Len(waits) : waits[k] = 100 * 1000 * Pow2(k - 1)

\* C6 as claimed: an ok response with a JSON content type, not streamed and
\* not 204, decodes to the parsed JSON value of a non-empty JSON body (0,
\* false, "" and null included) and to {} for an empty body.
C6_JsonBody ==
  ReadAsJson =>
    /\ (response.body # "" /\ JsonParse(response.body).ok)
         => (outcome.kind = "ok" /\ outcome.body = JsonParse(response.body).value)
    /\ response.body = "" => (outcome.kind = "ok" /\ outcome.body = EmptyObj)

\* The reads processBody makes on the current response with the content type
\* header value.
ReadsWith(value) ==
  ProcessBody([response EXCEPT !.headers = << <<"content-type", value>> >>]).reads

\* C7: processBody selects the decoding from the declared content type without
\* its parameters: 'application/json' is read as JSON, a type starting with
\* 'text/' as text (verbatim), every other type, a missing one included, as a
\* blob of the body's byte length; adding or removing a parameter never
\* changes the decoding selected.
C7_DecodingByContentType ==
  (GotOk /\ options.asStream \in {Undefined, Bool(FALSE)} /\ response.status # 204)
    => /\ pc = "done"
       /\ IF Trim(SplitFirst(Declared, ";")) = "application/json"
          THEN reads = <<"json">>
          ELSE IF StartsWith(Trim(SplitFirst(Declared, ";")), "text/")
          THEN reads = <<"text">> /\ outcome.kind = "ok"
               /\ outcome.body = Str(response.body)
          ELSE reads = <<"blob">> /\ outcome.kind = "ok"
               /\ outcome.body = Blob(Len(response.body))
       /\ ReadsWith(Declared \o "; charset=utf-8") = reads
       /\ ReadsWith(SplitFirst(Declared, ";")) = reads

\* C7 witness: a body declared 'application/json ; charset=utf-8' has been
\* read as JSON.
C7_Witness ==
  /\ GotOk /\ pc = "done" /\ options.asStream = Undefined
  /\ Declared = "application/json ; charset=utf-8"
  /\ reads = <<"json">> /\ outcome.kind = "ok"

\* C8: without streaming, an ok response with status 204 yields body = null
\* and no body read is made on it, whatever its content type; headers and
\* status are returned.
C8_NoContent ==
  (response # NoResponse /\ response.status = 204
     /\ options.asStream \in {Undefined, Bool(FALSE)})
    => /\ ReturnedFromResponse
       /\ outcome.body = Null
       /\ outcome.status = 204
       /\ reads = <<>>

\* C8 witness: a 204 declared JSON has been returned with a null body.
C8_Witness ==
  /\ response # NoResponse /\ response.status = 204 /\ options.asStream = Undefined
  /\ Declared = "application/json"
  /\ pc = "done" /\ outcome.kind = "ok" /\ outcome.body = Null

\* C9: with asStream, an ok response's raw byte stream (response.body) is
\* returned as the body and no body read is made, for every status, 204
\* included, and every content type; a response that is not ok is retried or
\* fails exactly as it does without asStream.
C9_Streaming ==
  (response # NoResponse /\ options.asStream = Bool(TRUE))
    => /\ GotOk => /\ ReturnedFromResponse
                   /\ outcome.body = BodyStream(response)
                   /\ reads = <<>>
       /\ ~GotOk => /\ reads = OnResponse(response, Undefined).reads
                    /\ outcome = OnResponse(response, Undefined).outcome
                    /\ (pc = "delaying") = (response.status \in {429, 502})
                    /\ pc \in {"delaying", "done"}

\* C9 witness: a streamed 200 declared JSON has been returned as its stream,
\* unread.
C9_Witness ==
  /\ GotOk /\ options.asStream = Bool(TRUE) /\ response.status = 200
  /\ Declared = "application/json" /\ response.body = "<html>"
  /\ pc = "done" /\ outcome.kind = "ok" /\ outcome.body = Stream("<html>")
  /\ reads = <<>>


\* The prefix of the call with its last '/' removed, or with one added.
OtherPrefix ==
  IF EndsWith(options.prefixUrl.v, "/")
  THEN Str(SubSeq(options.prefixUrl.v, 1, Len(options.prefixUrl.v) - 1))
  ELSE Str(options.prefixUrl.v \o "/")

\* The path segments of the prefix, an empty last one apart.
PrefixSegments ==
  LET path == ParseAbsolute(options.prefixUrl.v).path
  IN IF path[Len(path)] = "" THEN SubSeq(path, 1, Len(path) - 1) ELSE path

\* The path segments of the endpoint: the pieces between the slashes of its
\* text before any '?' or '#'.
EndpointSegments == Split(SubSeq(endpoint, 1, FirstOf(endpoint, {"?", "#"}) - 1), "/")

\* The call has a prefix URL and an endpoint that is not an absolute URL, and
\* has built its URL.
RelativeCall ==
  /\ pc # "start"
  /\ options.prefixUrl.t = "str"
  /\ ParseAbsolute(options.prefixUrl.v).ok
  /\ SchemeOf(endpoint) = ""

\* The endpoint is a plain relative path and the prefix has no query and no
\* fragment.
PlainRelativeCall ==
  /\ RelativeCall
  /\ ~StartsWith(endpoint, "/")
  /\ \A k \in 1..Len(EndpointSegments) : EndpointSegments[k] \notin {".", ".."}
  /\ FirstOf(options.prefixUrl.v, {"?", "#"}) > Len(options.prefixUrl.v)

\* The URL requested has the prefix's path segments followed by the endpoint's,
\* and is the same for the prefix with and without its last '/'.
ConcatenatesSegments ==
  /\ url.ok
  /\ url.path = PrefixSegments \o EndpointSegments
  /\ url = RequestUrl(endpoint, [options EXCEPT !.prefixUrl = OtherPrefix])
  /\ requests = << <<Href(url), mode>> >>
  /\ (endpoint = "testurl/123" /\ options.searchParams = Str("test=4")
        /\ options.prefixUrl \in {Str("http://test.com/projects"),
                                  Str("http://test.com/projects/")})
       => Href(url) = "http://test.com/projects/testurl/123?test=4"

\* C10 as claimed: for a relative endpoint and a prefix URL, the request URL's
\* path is the prefix's path segments followed by the endpoint's segments, and
\* the URL is the same whether or not the prefix ends with '/'.
C10_PrefixConcatenation == RelativeCall => ConcatenatesSegments

\* C10 as amended: the same, for an endpoint that is a plain relative path (no
\* leading '/', no '.' or '..' segment) and a prefix URL without query or
\* fragment.
C10_PlainPrefixConcatenation == PlainRelativeCall => ConcatenatesSegments

\* C10 witness: 'testurl/123' under the prefix 'http://test.com/projects' is
\* requested as http://test.com/projects/testurl/123?test=4.
C10_Witness ==
  /\ PlainRelativeCall
  /\ endpoint = "testurl/123"
  /\ options.prefixUrl = Str("http://test.com/projects")
  /\ options.searchParams = Str("test=4")
  /\ requests = << <<"http://test.com/projects/testurl/123?test=4", Undefined>> >>


\* The mode the endpoint asks for: 'same-origin' when its text contains
\* 'repository/archive', the default (undefined) otherwise.
ModeOfEndpoint ==
  IF \E k \in 1..Len(endpoint) :
       k + 17 <= Len(endpoint) /\ SubSeq(endpoint, k, k + 17) = "repository/archive"
  THEN Str("same-origin") ELSE Undefined

\* C11: every network call of an invocation, the first and every retry, is
\* issued with mode 'same-origin' when the endpoint contains
\* 'repository/archive' and with the default mode (undefined) otherwise; the
\* mode is the same at every attempt of one call.
C11_ModePerCall ==
  /\ \A k \in 1..Len(requests) : requests[k][2] = ModeOfEndpoint
  /\ \A k \in 1..Len(requests) : requests[k][2] = requests[1][2]
  /\ pc # "start" => mode = ModeOfEndpoint

\* C11 witness: ten calls to http://test.com/repository/archive, each with
\* mode 'same-origin'.
C11_Witness ==
  /\ endpoint = "http://test.com/repository/archive"
  /\ calls = 10
  /\ \A k \in 1..10 : requests[k] = <<"http://test.com/repository/archive", Str("same-origin")>>


\* The call ended on a response that is not ok and not retryable.
FailedOnResponse == GotFailure /\ pc = "done"

\* The content type of the current response declares JSON.
DeclaredJson == Includes(Declared, "application/json")

\* The body of the current response is the text of a JSON value other than
\* null.
JsonBody == JsonParse(response.body).ok /\ JsonParse(response.body).value # Null

\* The field name of the parsed body, undefined when the body has none.
BodyField(name) == Prop(JsonParse(response.body).value, name)

\* The call threw the normalized error of the current response with the
\* description description.
NormalizedWith(description) ==
  /\ outcome.kind = "error"
  /\ outcome.name = "Error"
  /\ outcome.cause # Undefined
  /\ outcome.cause.description = description
  /\ outcome.cause.response = response

\* C12 as claimed: for a response that is not ok and not retryable, when the
\* declared content type is JSON the cause's description is the pretty-printed
\* JSON text of the parsed body's error field whenever that field is present,
\* and of its message field only when error is absent; otherwise it is the
\* response text verbatim; the cause's response is the response.  A 501 with
\* the JSON body {"error": "msg"} has the description "msg" in JSON quotes.
C12_ErrorFieldWhenPresent ==
  FailedOnResponse =>
    /\ (DeclaredJson /\ JsonBody /\ BodyField("error") # Undefined)
         => NormalizedWith(Stringify(BodyField("error")))
    /\ (DeclaredJson /\ JsonBody /\ BodyField("error") = Undefined
          /\ BodyField("message") # Undefined)
         => NormalizedWith(Stringify(BodyField("message")))
    /\ ~DeclaredJson => NormalizedWith(Str(response.body))
    /\ (response.status = 501 /\ Declared = "application/json"
          /\ response.body = "{\"error\":\"msg\"}")
         => NormalizedWith(Str("\"msg\""))


\* The resource URL's scheme is https.
SecureScheme == StartsWith(resourceOptions.url, "https:")

\* C13 as claimed: the resolved options carry the certificate-bypass flag (an
\* agent with rejectUnauthorized false) if and only if the resource URL's
\* scheme is https, the resource sets rejectUnauthorized to exactly false, and
\* there is no global window object; an http resource, whatever its host or
\* path contains, has no flag; no error is raised.
C13_AgentOnlyForHttps ==
  resolved # Pending =>
    /\ resolved.method = requestOptions.method
    /\ IF /\ SecureScheme
          /\ resourceOptions.rejectUnauthorized = Bool(FALSE)
          /\ typeofWindow # "object"
       THEN resolved.agent = [t |-> "agent", rejectUnauthorized |-> FALSE]
       ELSE resolved.agent = Undefined


\* C14 as claimed: every normalized error raised for a response that is not
\* ok and not retryable carries a cause whose description is a string, for
\* every body and content type, a JSON body with neither an error nor a
\* message field included.
C14_DescriptionIsString ==
  (FailedOnResponse /\ outcome.kind = "error" /\ outcome.cause # Undefined)
    => outcome.cause.description.t = "str"


\* The current response is not ok and not retryable, declares the content
\* type application/json (with or without parameters), and its body is not
\* the text of a JSON value.
MalformedErrorBody ==
  /\ GotFailure
  /\ Trim(SplitFirst(Declared, ";")) = "application/json"
  /\ ~JsonParse(response.body).ok

\* C15: when a response that is not ok and not retryable declares a JSON
\* content type and its body is not valid JSON, the call ends with the parse
\* error itself (a SyntaxError without cause, not an error with the status
\* text), and no network call and no wait follows.
C15_MalformedErrorBody ==
  MalformedErrorBody =>
    /\ pc = "done"
    /\ outcome.kind = "error"
    /\ outcome.name = "SyntaxError"
    /\ outcome.cause = Undefined
    /\ outcome.message # response.statusText
    /\ calls = i + 1
    /\ Len(waits) = i
    /\ ~ENABLED Next

\* C15 witness: after a retry, a 501 declared application/json with the body
\* <html> has ended the call with the SyntaxError.
C15_Witness ==
  /\ MalformedErrorBody /\ response.status = 501 /\ response.body = "<html>"
  /\ i = 1 /\ calls = 2 /\ Len(waits) = 1
  /\ pc = "done" /\ outcome.name = "SyntaxError"


\* C16 as claimed: waits occur only between consecutive attempts: a call that
\* has made n network calls (1 <= n <= 10) has performed exactly n - 1 waits
\* when it ends, so a call that exhausts its 10 attempts performs 9 waits and
\* fails directly after the 10th response, with no wait after it.
C16_WaitsBetweenAttempts ==
  /\ (pc = "done" /\ calls >= 1) => Len(waits) = calls - 1
  /\ (pc = "done" /\ outcome = RetriesExhausted) => (calls = 10 /\ Len(waits) = 9)
  /\ (pc = "delaying") => calls < 10


\* The URL and the mode a call that runs alone fetches with, for each of the
\* concurrent requests.
AloneFetches ==
  << <<"http://test.com/", Undefined>>,
     <<"http://test.com/repository/archive", Str("same-origin")>>,
     <<"http://test.com/projects/testurl/123?test=4", Undefined>> >>

\* The invocation c fetches, at every attempt, what a call that runs alone
\* with its arguments fetches.
OwnRequests(c, me) ==
  /\ Href(me.url) = AloneFetches[((c - 1) % 3) + 1][1]
  /\ me.mode = AloneFetches[((c - 1) % 3) + 1][2]
  /\ \A j \in 1..Len(me.requests) : me.requests[j] = AloneFetches[((c - 1) % 3) + 1]

\* The invocation me has ended on its response with the outcome of a call
\* that runs alone: the parsed body of the 200, the normalized error of the
\* 501.
OwnOutcome(me) ==
  /\ me.response.status \in {200, 501}
  /\ me.response.status = 200 =>
       me.outcome = [kind |-> "ok", body |-> Obj(<< <<"test", Num(5)>> >>),
                     headers |-> Obj(<< <<"content-type", Str("application/json")>> >>),
                     status |-> 200]
  /\ me.response.status = 501 =>
       me.outcome = [kind |-> "error", name |-> "Error", message |-> "Really Bad Error",
                     cause |-> [description |-> Str("\"msg\""),
                                response |-> me.response]]

\* Invocation c is where its own answers alone put it: after k answers, k of
\* them retryable while it fetches or waits and k - 1 when it has ended on its
\* last answer, it has made the calls, taken the index, started the waits and
\* reached the outcome of a call that runs alone with these answers.
OwnProgress(c, me, k) ==
  /\ me.endpoint = RequestOf(c).endpoint
  /\ me.options = RequestOf(c).options
  /\ me.pc # "start" => OwnRequests(c, me)
  /\ \A j \in 1..Len(me.waits) : me.waits[j] = Backoff(j - 1)
  /\ me.pc = "start" => (k = 0 /\ Len(me.requests) = 0 /\ Len(me.waits) = 0)
  /\ me.pc = "fetching" =>
       (Len(me.requests) = k + 1 /\ index[c] = k /\ Len(me.waits) = k
          /\ me.outcome = Pending)
  /\ me.pc = "delaying" =>
       (Len(me.requests) = k /\ index[c] = k - 1 /\ Len(me.waits) = k
          /\ me.response.status \in {429, 502} /\ me.outcome = Pending)
  /\ (me.pc = "done" /\ me.outcome # RetriesExhausted) =>
       /\ Len(me.requests) = k /\ index[c] = k - 1 /\ Len(me.waits) = k - 1
       /\ IF me.failure # Pending THEN me.outcome = CatchFetch(me.failure)
          ELSE OwnOutcome(me)
  /\ (me.pc = "done" /\ me.outcome = RetriesExhausted) =>
       (k = 10 /\ Len(me.requests) = 10 /\ index[c] = 10 /\ Len(me.waits) = 10)

\* C17: when several calls run at once and their network calls and waits
\* interleave in any order, each call's number of network calls, attempt
\* index, waits and outcome are those its own endpoint, options and answers
\* give: no call's index or outcome depends on another call's progress.
C17_CallsIndependent ==
  \A c \in CallIds : OwnProgress(c, running[c], running[c].answered)

\* C17 witness: the first call has succeeded at its third attempt while the
\* second, started before it, waits after its fifth retryable response.
C17_Witness ==
  /\ running[1].pc = "done" /\ running[1].outcome.kind = "ok"
  /\ index[1] = 2 /\ Len(running[1].requests) = 3
  /\ running[2].pc = "delaying" /\ index[2] = 4 /\ Len(running[2].requests) = 5
  /\ running[2].mode = Str("same-origin") /\ running[1].mode = Undefined


\* The query the endpoint's own text carries: what follows its first '?',
\* null when it has none.
EndpointQuery ==
  IF FirstOf(endpoint, {"?"}) <= Len(endpoint)
  THEN Str(SubSeq(endpoint, FirstOf(endpoint, {"?"}) + 1, Len(endpoint)))
  ELSE Null

\* C18 as claimed: the query of the URL requested is replaced by searchParams
\* only when searchParams is supplied; without searchParams, a query present
\* in the endpoint ('items?page=2') is left unchanged in the URL requested.
C18_QueryKeptUnlessSupplied ==
  (pc # "start" /\ url.ok) =>
    /\ (options.searchParams.t = "str" /\ options.searchParams.v # "")
         => url.query = options.searchParams
    /\ options.searchParams = Undefined =>
         /\ url.query = EndpointQuery
         /\ EndpointQuery # Null
              => EndsWith(requests[1][1], "?" \o EndpointQuery.v)


\* The outcomes of a call that has ended.
Success == outcome.kind = "ok"

RequestFailed ==
  /\ outcome.kind = "error" /\ outcome.name = "Error"
  /\ outcome.cause # Undefined
  /\ failure = Pending /\ response # NoResponse
  /\ outcome.message = response.statusText

TransportFailed ==
  /\ outcome.kind = "error"
  /\ failure # Pending
  /\ IF failure.name \in {"TimeoutError", "AbortError"}
     THEN outcome.name = "Error" /\ outcome.message = "Query timeout was reached"
     ELSE outcome = failure

RetryExhausted ==
  /\ outcome.kind = "error" /\ outcome.name = "Error"
  /\ outcome.message = "Could not successfully complete this request"
  /\ failure = Pending

\* The error raised on reading the body of the last response, thrown as it is.
BodyUnreadable ==
  /\ outcome.kind = "error" /\ outcome.name \in {"SyntaxError", "TypeError"}
  /\ outcome.cause = Undefined
  /\ failure = Pending /\ response # NoResponse

\* The endpoint and the prefix make no URL: the TypeError of new URL, before
\* any network call.
UrlRejected ==
  /\ outcome.kind = "error" /\ outcome.name = "TypeError"
  /\ failure = Pending /\ response = NoResponse /\ calls = 0

\* How many of the conditions of the sequence conds hold.
RECURSIVE HowMany(_)
HowMany(conds) ==
  IF conds = <<>> THEN 0 ELSE (IF Head(conds) THEN 1 ELSE 0) + HowMany(Tail(conds))

\* C19 as claimed: when every network call and every wait completes, the call,
\* once made, ends, after at most 10 network calls, in exactly one of the outcomes
\* success, RequestFailed, a transport failure (TransportTimeout or another)
\* and RetryExhausted; a success is returned only for an ok response.
C19_EndsInFourOutcomes ==
  /\ (pc # "start") ~> (pc = "done")
  /\ [](calls <= 10)
  /\ [](pc = "done" =>
          HowMany(<<Success, RequestFailed, TransportFailed, RetryExhausted>>) = 1)
  /\ [](Success => (pc = "done" /\ GotOk))

\* C19 as amended: the same, with two more outcomes: the error raised on
\* reading the body of the last response, thrown as it is (MalformedErrorBody,
\* and the like for an ok body), and the TypeError of a URL that cannot be
\* built, before any network call.
C19_EndsInOneOutcome ==
  /\ (pc # "start") ~> (pc = "done")
  /\ [](calls <= 10)
  /\ [](pc = "done" =>
          HowMany(<<Success, RequestFailed, TransportFailed, RetryExhausted,
                    BodyUnreadable, UrlRejected>>) = 1)
  /\ [](Success => (pc = "done" /\ GotOk))
  /\ []((pc = "done" /\ calls >= 1 /\ ~RetryExhausted) => calls = i + 1)

\* C19 witness: the call has ended at its 10th network call, on a 404, with
\* RequestFailed.
C19_Witness ==
  /\ pc = "done" /\ calls = 10 /\ i = 9
  /\ response # NoResponse /\ response.status = 404
  /\ RequestFailed /\ ~Success /\ ~RetryExhausted

=============================================================================
